---- MODULE Spec2Model ----
(***************************************************************************)
(* Model of seaborn/_marks/abline.py (reference-line marks) and            *)
(* seaborn/_stats/aggregation.py (aggregation statistics).                 *)
(*                                                                         *)
(* Marks: a mark's _plot walks the groups yielded by split_gen and calls   *)
(* ax.axline once per loop iteration; the calls are logged in axlines.     *)
(* Stats: a stat instance is called with (data, groupby, orient, scales)   *)
(* and returns a reduced table, or raises.                                 *)
(***************************************************************************)
EXTENDS Integers, Sequences, FiniteSets, TLC

VARIABLES
    mark,        \* class of the mark being rendered
    split,       \* the groups split_gen yields: one record of resolved values each
    morient,     \* orient argument of the last _plot call ("" before any call)
    axlines,     \* the ax.axline calls issued by the last _plot call
    pstatus,     \* "idle" | "returned" | "raised"
    inst,        \* the stat instance (its class and attributes)
    constructed, \* the attributes the constructor assigned to inst
    data,        \* the data table handed to the stat
    groupby,     \* GroupBy.order: the grouping variables of the helper
    sorient,     \* orient argument of the last __call__ ("" before any call)
    outcome,     \* "idle" | "returned" | "raised"
    result       \* value returned by the last __call__

markvars == <<mark, split, morient, axlines, pstatus>>
statvars == <<inst, constructed, data, groupby, sorient, outcome, result>>
vars == <<mark, split, morient, axlines, pstatus,
          inst, constructed, data, groupby, sorient, outcome, result>>

-----------------------------------------------------------------------------
(* Bounds *)

MaxLen == 2       \* longest vector-valued mark parameter
MaxGroups == 1    \* most groups split_gen yields
MaxRows == 2      \* most rows of a data table

\* the numbers mark parameters are made of: the defaults Mappable(0) and
\* Mappable(1) of Axline.intercept, Axline.slope and Axhline.y
Coords == {0, 1}

\* the grouping keys and the numbers found in data tables
Keys == {1, 2}
Nums == {1, 2}

Orients == {"x", "y"}

-----------------------------------------------------------------------------
(* Resolved mark parameters: a scalar, or a numpy vector of length >= 1.  *)

Scalar(s) == [vec |-> FALSE, e |-> <<s>>]

Vector(es) == [vec |-> TRUE, e |-> es]

SeqsUpTo(S, n) == UNION {[1..k -> S] : k \in 1..n}

Scalars == {Scalar(s) : s \in Coords}

Params == Scalars \cup {Vector(es) : es \in SeqsUpTo(Coords, MaxLen)}

\* numpy broadcasting of two operands: equal lengths, or one of length 1
NpAddOk(a, b) == Len(a.e) = Len(b.e) \/ Len(a.e) = 1 \/ Len(b.e) = 1

NpAdd(a, b) ==
    LET n == IF Len(a.e) >= Len(b.e) THEN Len(a.e) ELSE Len(b.e)
        at(p, i) == IF Len(p.e) = 1 THEN p.e[1] ELSE p.e[i]
    IN  [vec |-> a.vec \/ b.vec, e |-> [i \in 1..n |-> at(a, i) + at(b, i)]]

\* tuple[::-1] on a 2-tuple
Reversed(xy) == <<xy[2], xy[1]>>

-----------------------------------------------------------------------------
(* Marks *)

MarkClasses == {"AxlineBase", "Axline", "Axhline"}

\* the values resolve_properties yields that a class's _plot reads
GroupVals(cls) ==
    CASE cls = "Axline"     -> [intercept : Params, slope : Params]
      [] cls = "Axhline"    -> [y : Params]
      [] cls = "AxlineBase" -> [x : Scalars, y : Scalars]

\* AxlineBase._get_passthrough_points: no class overrides it
GetPassthroughPointsRaises == TRUE

\* AxlinePoints with a fault: the second point forgets the intercept
AxlinePointsSlopeOnly(vals) ==
    <<  <<Scalar(0), vals.intercept>>,  <<Scalar(1), vals.slope>>  >>

\* Axline._plot, xy1 and xy2 before the orient test
AxlinePoints(vals) ==
    <<  <<Scalar(0), vals.intercept>>,
        <<Scalar(1), NpAdd(vals.intercept, vals.slope)>>  >>

\* AxhlinePoints with a fault: both points at x = 0
AxhlinePointsSameX(vals) ==
    <<  <<Scalar(0), vals.y>>,  <<Scalar(0), vals.y>>  >>

\* Axhline._plot, xy1 and xy2 before the orient test
AxhlinePoints(vals) ==
    <<  <<Scalar(0), vals.y>>,  <<Scalar(1), vals.y>>  >>

\* OrientSwap with a fault: the test is on the other orient
OrientSwapOnX(orient, pts) ==
    IF orient = "x" THEN <<Reversed(pts[1]), Reversed(pts[2])>> ELSE pts

\* if orient == "y": xy1 = xy1[::-1]; xy2 = xy2[::-1]
OrientSwap(orient, pts) ==
    IF orient = "y" THEN <<Reversed(pts[1]), Reversed(pts[2])>> ELSE pts

\* does the loop body raise for this group, before reaching ax.axline?
BodyRaises(cls, vals) ==
    CASE cls = "AxlineBase" -> GetPassthroughPointsRaises
      [] cls = "Axline"     -> ~NpAddOk(vals.intercept, vals.slope)
      [] cls = "Axhline"    -> FALSE

\* the ax.axline call of one loop iteration
AxlineCall(cls, vals, orient, i) ==
    LET pts == OrientSwap(orient,
                   IF cls = "Axline" THEN AxlinePoints(vals) ELSE AxhlinePoints(vals))
    IN  [group |-> i, xy1 |-> pts[1], xy2 |-> pts[2]]

\* for keys, _, ax in split_gen(): ... ax.axline(xy1, xy2, ...)
RECURSIVE PlotLoop(_, _, _, _, _)
PlotLoop(cls, groups, orient, i, calls) ==
    IF i > Len(groups) THEN [status |-> "returned", calls |-> calls]
    ELSE IF BodyRaises(cls, groups[i]) THEN [status |-> "raised", calls |-> calls]
    ELSE PlotLoop(cls, groups, orient, i + 1,
                  Append(calls, AxlineCall(cls, groups[i], orient, i)))

\* Mark._plot(split_gen, scales, orient)
Plot(orient) ==
    LET run == PlotLoop(mark, split, orient, 1, <<>>)
    IN  /\ morient' = orient
        /\ axlines' = run.calls
        /\ pstatus' = run.status
        /\ UNCHANGED <<mark, split>>
        /\ UNCHANGED statvars

StatIdle ==
    /\ inst = [cls |-> "none"]
    /\ constructed = [cls |-> "none"]
    /\ data = <<>>
    /\ groupby = <<>>
    /\ sorient = ""
    /\ outcome = "idle"
    /\ result = [kind |-> "unset", rows |-> <<>>]

InitMark ==
    /\ mark \in MarkClasses
    /\ split \in UNION {[1..k -> GroupVals(mark)] : k \in 0..MaxGroups}
    /\ morient = ""
    /\ axlines = <<>>
    /\ pstatus = "idle"
    /\ StatIdle

NextMark == \E orient \in Orients : Plot(orient)

SpecMark == InitMark /\ [][NextMark]_vars

-----------------------------------------------------------------------------
(* Table cells are exact rationals <<numerator, denominator>>; the missing *)
(* value NaN is <<0, 0>>.  Cells of an input table are whole numbers.      *)

NaN == <<0, 0>>

Num(n) == <<n, 1>>

IsNaN(c) == c[2] = 0

RECURSIVE Gcd(_, _)
Gcd(a, b) == IF b = 0 THEN a ELSE Gcd(b, a % b)

Frac(n, d) == <<n \div Gcd(n, d), d \div Gcd(n, d)>>

Range(s) == {s[i] : i \in DOMAIN s}

RECURSIVE SumNum(_)
SumNum(cells) == IF cells = <<>> THEN 0 ELSE Head(cells)[1] + SumNum(Tail(cells))

MinNum(cells) == CHOOSE n \in {c[1] : c \in Range(cells)} :
                     \A c \in Range(cells) : n <= c[1]

MaxNum(cells) == CHOOSE n \in {c[1] : c \in Range(cells)} :
                     \A c \in Range(cells) : n >= c[1]

NotNa(cells) == SelectSeq(cells, LAMBDA c : ~IsNaN(c))

\* pandas Series reductions, which skip missing values
Reduce(f, cells) ==
    LET d == NotNa(cells)
    IN  IF d = <<>> THEN NaN
        ELSE CASE f = "mean" -> Frac(SumNum(d), Len(d))
               [] f = "min"  -> Num(MinNum(d))
               [] f = "max"  -> Num(MaxNum(d))

\* a table: its column names and its rows, each a function on the columns
Table(cols, rows) == [cols |-> cols, rows |-> rows]

Column(rows, c) == [i \in DOMAIN rows |-> rows[i][c]]

RowsOver(cols) ==
    {r \in [cols -> {NaN} \cup {Num(n) : n \in Keys \cup Nums}] :
        \A c \in cols : IF c = "g" THEN r[c] \in {Num(k) : k \in Keys}
                        ELSE r[c] \in {NaN} \cup {Num(n) : n \in Nums}}

TablesOver(cols) ==
    {Table(cols, rows) : rows \in UNION {[1..k -> RowsOver(cols)] : k \in 0..MaxRows}}

XYCols == {"g", "x", "y"}
LineCols == {"g", "intercept", "slope"}

\* {"x": "y", "y": "x"}[orient]
Other(orient) == IF orient = "x" THEN "y" ELSE "x"

\* DataFrame.dropna(subset=...)
DropNa(rows, subset) == SelectSeq(rows, LAMBDA r : \A c \in subset : ~IsNaN(r[c]))

-----------------------------------------------------------------------------
(* The grouping helper of the host (seaborn._core.groupby.GroupBy)         *)

RECURSIVE SortedCells(_)
SortedCells(S) ==
    IF S = {} THEN <<>>
    ELSE LET m == CHOOSE c \in S : \A d \in S : c[1] <= d[1]
         IN  <<m>> \o SortedCells(S \ {m})

\* the grouping variables present in the table
Grouper(tbl, order) == SelectSeq(order, LAMBDA v : v \in tbl.cols)

\* the observed levels of a grouping variable, in sorted order
Levels(tbl, v) == SortedCells({r[v] : r \in Range(tbl.rows)} \ {NaN})

RECURSIVE Flatten(_)
Flatten(ss) == IF ss = <<>> THEN <<>> ELSE Head(ss) \o Flatten(Tail(ss))

\* every combination of levels, the first grouping variable varying slowest
RECURSIVE GroupKeys(_, _, _)
GroupKeys(tbl, grouper, i) ==
    IF i > Len(grouper) THEN << [v \in {} |-> NaN] >>
    ELSE LET lv == Levels(tbl, grouper[i])
             rest == GroupKeys(tbl, grouper, i + 1)
         IN  Flatten([a \in DOMAIN lv |->
                 [b \in DOMAIN rest |->
                     [v \in {grouper[i]} \cup DOMAIN rest[b] |->
                         IF v = grouper[i] THEN lv[a] ELSE rest[b][v]]]])

Members(tbl, key) ==
    SelectSeq(tbl.rows, LAMBDA r : \A v \in DOMAIN key : r[v] = key[v])

\* GroupBy.agg(data, {column: function}): one row per combination of levels
GroupByAgg(tbl, order, agg_kws) ==
    LET grouper == Grouper(tbl, order)
        gset == Range(grouper)
        targets == DOMAIN agg_kws
        keys == GroupKeys(tbl, grouper, 1)
        row(key) ==
            LET m == Members(tbl, key)
            IN  [c \in gset \cup targets |->
                    IF c \in gset THEN key[c]
                    ELSE IF m = <<>> THEN NaN
                    ELSE Reduce(agg_kws[c], Column(m, c))]
    IN  IF \/ grouper = <<>>
           \/ targets = {}
           \/ ~(targets \subseteq tbl.cols)
           \/ targets \cap gset # {}
        THEN [raised |-> TRUE, rows |-> <<>>]
        ELSE [raised |-> FALSE, rows |-> [i \in DOMAIN keys |-> row(keys[i])]]

-----------------------------------------------------------------------------
(* Stats *)

Returned(rows) == [kind |-> "table", rows |-> rows]
ReturnedNone == [kind |-> "None", rows |-> <<>>]
NoResult == [kind |-> "unset", rows |-> <<>>]

\* Agg.__init__
AggInit(func, group_by_orient) ==
    [cls |-> "Agg", func |-> func, group_by_orient |-> group_by_orient]

\* Agg.__call__ with a fault: the dropna is left out
AggDunderCallNoDropNa(self, tbl, order, orient) ==
    LET var == Other(orient)
        res == GroupByAgg(tbl, order, [c \in {var} |-> self.func])
    IN  IF res.raised
        THEN [self |-> self, status |-> "raised", result |-> NoResult]
        ELSE [self |-> self, status |-> "returned", result |-> Returned(res.rows)]

\* Agg.__call__: var, then groupby.agg(...).dropna(subset=[var])
AggDunderCall(self, tbl, order, orient) ==
    LET var == Other(orient)
        res == GroupByAgg(tbl, order, [c \in {var} |-> self.func])
    IN  IF res.raised
        THEN [self |-> self, status |-> "raised", result |-> NoResult]
        ELSE [self |-> self, status |-> "returned",
              result |-> Returned(DropNa(res.rows, {var}))]

AggCall(orient) ==
    LET run == AggDunderCall(inst, data, groupby, orient)
    IN  /\ inst.cls = "Agg"
        /\ inst' = run.self
        /\ sorient' = orient
        /\ outcome' = run.status
        /\ result' = run.result
        /\ UNCHANGED <<constructed, data, groupby>>
        /\ UNCHANGED markvars

MarkIdle ==
    /\ mark = "none"
    /\ split = <<>>
    /\ morient = ""
    /\ axlines = <<>>
    /\ pstatus = "idle"

Orders == {<<"g">>, <<"g", "x">>, <<"g", "y">>}

AggFuncs == {"mean", "min"}

InitAgg ==
    /\ \E f \in AggFuncs, b \in BOOLEAN : inst = AggInit(f, b)
    /\ constructed = inst
    /\ data \in TablesOver(XYCols)
    /\ groupby \in Orders
    /\ sorient = ""
    /\ outcome = "idle"
    /\ result = NoResult
    /\ MarkIdle

NextAgg == \E orient \in Orients : AggCall(orient)

SpecAgg == InitAgg /\ [][NextAgg]_vars

-----------------------------------------------------------------------------
(* AggCustom and Agg2d.  func is a name, or a dict of column -> name.      *)

FuncName(n) == [isdict |-> FALSE, name |-> n, map |-> <<>>]

FuncDict(m) == [isdict |-> TRUE, name |-> "", map |-> m]

\* dict.pop(key, None)
Pop(d, key) == [c \in DOMAIN d \ {key} |-> d[c]]

\* AggCustom.__init__
AggCustomInit(func, group_by_orient) ==
    [cls |-> "AggCustom", func |-> func, group_by_orient |-> group_by_orient]

\* Agg2d.__init__: super().__init__(func=func, group_by_orient=False)
Agg2dInit(func) ==
    [cls |-> "Agg2d", func |-> func, group_by_orient |-> FALSE]

\* agg_kws = self.func when it is a dict (the same object, not a copy),
\* else {"x": self.func, "y": self.func}
AggKws(self) ==
    IF self.func.isdict THEN self.func.map
    ELSE [c \in {"x", "y"} |-> self.func.name]

\* AggKwsPopped with a fault: the pop happens when group_by_orient is False
AggKwsPoppedInverted(self, orient) ==
    IF ~self.group_by_orient THEN Pop(AggKws(self), orient) ELSE AggKws(self)

\* if self.group_by_orient: agg_kws.pop(orient, None)
AggKwsPopped(self, orient) ==
    IF self.group_by_orient THEN Pop(AggKws(self), orient) ELSE AggKws(self)

\* the instance after the pop: a dict func is the object that was popped from
SelfAfterPop(self, orient) ==
    IF self.func.isdict
    THEN [self EXCEPT !.func = FuncDict(AggKwsPopped(self, orient))]
    ELSE self

\* AggCustom.__call__ (inherited by Agg2d)
AggCustomDunderCall(self, tbl, order, orient) ==
    LET agg_kws == AggKwsPopped(self, orient)
        after == SelfAfterPop(self, orient)
        res == GroupByAgg(tbl, order, agg_kws)
    IN  IF res.raised
        THEN [self |-> after, status |-> "raised", result |-> NoResult]
        ELSE [self |-> after, status |-> "returned",
              result |-> Returned(DropNa(res.rows, DOMAIN agg_kws))]

AggCustomCall(orient) ==
    LET run == AggCustomDunderCall(inst, data, groupby, orient)
    IN  /\ inst.cls \in {"AggCustom", "Agg2d"}
        /\ inst' = run.self
        /\ sorient' = orient
        /\ outcome' = run.status
        /\ result' = run.result
        /\ UNCHANGED <<constructed, data, groupby>>
        /\ UNCHANGED markvars

\* the mapping of the AggCustom docstring, {"intercept": min, "slope": "mean"}
LineDict == [c \in {"intercept", "slope"} |-> IF c = "intercept" THEN "min" ELSE "mean"]

\* a mapping over the axis columns
XYDict == [c \in {"x", "y"} |-> IF c = "x" THEN "min" ELSE "mean"]

CustomFuncs == {FuncName("mean"), FuncDict(XYDict), FuncDict(LineDict)}

\* the columns a func names
FuncCols(func) == IF func.isdict THEN DOMAIN func.map ELSE {"x", "y"}

InitAggCustom ==
    /\ \/ \E f \in CustomFuncs, b \in BOOLEAN : inst = AggCustomInit(f, b)
       \/ inst = Agg2dInit(FuncName("mean"))
    /\ constructed = inst
    /\ data \in TablesOver(XYCols) \cup TablesOver(LineCols)
    /\ FuncCols(inst.func) \subseteq data.cols
    /\ groupby \in Orders
    /\ sorient = ""
    /\ outcome = "idle"
    /\ result = NoResult
    /\ MarkIdle

NextAggCustom == \E orient \in Orients : AggCustomCall(orient)

SpecAggCustom == InitAggCustom /\ [][NextAggCustom]_vars

-----------------------------------------------------------------------------
(* Est *)

MinCol(var) == IF var = "x" THEN "xmin" ELSE "ymin"
MaxCol(var) == IF var = "x" THEN "xmax" ELSE "ymax"

\* the host's EstimateAggregator(func, errorbar)(data, var): the estimate and
\* an interval, which is undefined without an error method or for one row;
\* errorbar "pi" is the full percentile interval ("pi", 100)
EstimateAggregator(func, errorbar, rows, var) ==
    LET vals == Column(rows, var)
        undefined == errorbar = "none" \/ Len(rows) <= 1
    IN  [c \in {var, MinCol(var), MaxCol(var)} |->
            IF c = var THEN Reduce(func, vals)
            ELSE IF undefined THEN NaN
            ELSE IF c = MinCol(var) THEN Reduce("min", vals)
            ELSE Reduce("max", vals)]

\* Est._process: one row holding the estimator's result
Process(self, rows, var) == EstimateAggregator(self.func, self.errorbar, rows, var)

\* a row with the group's key assigned over it
Assign(row, key) ==
    [c \in DOMAIN row \cup DOMAIN key |-> IF c \in DOMAIN key THEN key[c] ELSE row[c]]

\* GroupBy.apply(data, func, ...): func on each observed group, concatenated
GroupByApply(self, tbl, order, var) ==
    LET grouper == Grouper(tbl, order)
        keys == SelectSeq(GroupKeys(tbl, grouper, 1),
                          LAMBDA k : Members(tbl, k) # <<>>)
    IN  IF var \notin tbl.cols \/ (grouper # <<>> /\ keys = <<>>)
        THEN [raised |-> TRUE, rows |-> <<>>]
        ELSE IF grouper = <<>>
        THEN [raised |-> FALSE, rows |-> <<Process(self, tbl.rows, var)>>]
        ELSE [raised |-> FALSE,
              rows |-> [i \in DOMAIN keys |->
                  Assign(Process(self, Members(tbl, keys[i]), var), keys[i])]]

\* FillNa with a fault: only the lower bound is filled
FillNaMinOnly(rows, var) ==
    [i \in DOMAIN rows |->
        [c \in DOMAIN rows[i] |->
            IF c = MinCol(var) /\ IsNaN(rows[i][c])
            THEN rows[i][var] ELSE rows[i][c]]]

\* res.fillna({f"{var}min": res[var], f"{var}max": res[var]})
FillNa(rows, var) ==
    [i \in DOMAIN rows |->
        [c \in DOMAIN rows[i] |->
            IF c \in {MinCol(var), MaxCol(var)} /\ IsNaN(rows[i][c])
            THEN rows[i][var] ELSE rows[i][c]]]

\* Est.__call__
EstDunderCall(self, tbl, order, orient) ==
    LET var == Other(orient)
        res == GroupByApply(self, tbl, order, var)
    IN  IF res.raised
        THEN [self |-> self, status |-> "raised", result |-> NoResult]
        ELSE [self |-> self, status |-> "returned",
              result |-> Returned(FillNa(DropNa(res.rows, {var}), var))]

EstCall(orient) ==
    LET run == EstDunderCall(inst, data, groupby, orient)
    IN  /\ inst.cls = "Est"
        /\ inst' = run.self
        /\ sorient' = orient
        /\ outcome' = run.status
        /\ result' = run.result
        /\ UNCHANGED <<constructed, data, groupby>>
        /\ UNCHANGED markvars

\* the dataclass fields of Est read by __call__ (n_boot and seed only reach
\* the bootstrap of errorbar "ci"); group_by_orient is a ClassVar
EstInit(func, errorbar) ==
    [cls |-> "Est", func |-> func, errorbar |-> errorbar, group_by_orient |-> TRUE]

InitEst ==
    /\ \E f \in AggFuncs, e \in {"none", "pi"} : inst = EstInit(f, e)
    /\ constructed = inst
    /\ data \in TablesOver(XYCols)
    /\ groupby \in Orders
    /\ sorient = ""
    /\ outcome = "idle"
    /\ result = NoResult
    /\ MarkIdle

NextEst == \E orient \in Orients : EstCall(orient)

SpecEst == InitEst /\ [][NextEst]_vars

-----------------------------------------------------------------------------
(* Rolling *)

\* Rolling.__call__: the body is "...", so the call returns None
RollingDunderCall(self, tbl, order, orient) ==
    [self |-> self, status |-> "returned", result |-> ReturnedNone]

RollingCall(orient) ==
    LET run == RollingDunderCall(inst, data, groupby, orient)
    IN  /\ inst.cls = "Rolling"
        /\ inst' = run.self
        /\ sorient' = orient
        /\ outcome' = run.status
        /\ result' = run.result
        /\ UNCHANGED <<constructed, data, groupby>>
        /\ UNCHANGED markvars

InitRolling ==
    /\ inst = [cls |-> "Rolling"]
    /\ constructed = inst
    /\ data \in TablesOver(XYCols)
    /\ groupby \in Orders
    /\ sorient = ""
    /\ outcome = "idle"
    /\ result = NoResult
    /\ MarkIdle

NextRolling == \E orient \in Orients : RollingCall(orient)

SpecRolling == InitRolling /\ [][NextRolling]_vars

-----------------------------------------------------------------------------
(* Properties of the marks, checked under SpecMark                         *)

\* the ax.axline calls of the loop iteration for group i, in call order
CallsOf(i) == SelectSeq(axlines, LAMBDA c : c.group = i)

\* the number of elements of the parameters of a group: a vector's length,
\* 1 for a scalar
VectorLen(cls, vals) ==
    IF cls = "Axhline" THEN Len(vals.y.e)
    ELSE IF Len(vals.intercept.e) >= Len(vals.slope.e)
         THEN Len(vals.intercept.e) ELSE Len(vals.slope.e)

ElemOf(p, k) == IF Len(p.e) = 1 THEN p.e[1] ELSE p.e[k]

\* the two points of the line for element k of a group's parameters
ElemPoints(cls, vals, k) ==
    IF cls = "Axhline"
    THEN << <<0, ElemOf(vals.y, k)>>, <<1, ElemOf(vals.y, k)>> >>
    ELSE << <<0, ElemOf(vals.intercept, k)>>,
            <<1, ElemOf(vals.intercept, k) + ElemOf(vals.slope, k)>> >>

\* the coordinates of a point handed to ax.axline are the numbers x and y
IsPoint(xy, x, y) == xy[1].e = <<x>> /\ xy[2].e = <<y>>

\* C3: a group whose resolved parameter is a vector of length N gets exactly
\* N ax.axline calls, the k-th through the points of the k-th element (a
\* scalar counting as a vector of length 1).
C3_VectorYieldsNLines ==
    (mark \in {"Axline", "Axhline"} /\ pstatus = "returned") =>
        \A i \in DOMAIN split :
            LET n == VectorLen(mark, split[i])
                cs == CallsOf(i)
            IN  /\ Len(cs) = n
                /\ \A k \in 1..n :
                      LET pts == ElemPoints(mark, split[i], k)
                      IN  IF morient = "y"
                          THEN /\ IsPoint(cs[k].xy1, pts[1][2], pts[1][1])
                               /\ IsPoint(cs[k].xy2, pts[2][2], pts[2][1])
                          ELSE /\ IsPoint(cs[k].xy1, pts[1][1], pts[1][2])
                               /\ IsPoint(cs[k].xy2, pts[2][1], pts[2][2])

\* the points a class computes for a group before the orient test
PointsBeforeSwap(cls, vals) ==
    IF cls = "Axline" THEN AxlinePoints(vals) ELSE AxhlinePoints(vals)

\* C4 as claimed: the points are reversed before the draw call exactly when
\* the orientation axis is "x" (the dependent axis is the vertical one).
C4_SwapIffOrientX ==
    \A j \in DOMAIN axlines :
        LET c == axlines[j]
            pts == PointsBeforeSwap(mark, split[c.group])
        IN  IF morient = "x"
            THEN c.xy1 = Reversed(pts[1]) /\ c.xy2 = Reversed(pts[2])
            ELSE c.xy1 = pts[1] /\ c.xy2 = pts[2]

\* C4 amended: in every ax.axline call the points are reversed exactly when
\* orient is "y" (the dependent axis is the horizontal one); with orient "x"
\* they are passed as computed.  AxlineBase._plot issues no call at all.
C4_SwapIffOrientY ==
    /\ \A j \in DOMAIN axlines :
          LET c == axlines[j]
              pts == PointsBeforeSwap(mark, split[c.group])
          IN  IF morient = "y"
              THEN c.xy1 = Reversed(pts[1]) /\ c.xy2 = Reversed(pts[2])
              ELSE c.xy1 = pts[1] /\ c.xy2 = pts[2]
    /\ mark = "AxlineBase" => axlines = <<>>

\* a call with orient "y" whose reversal shows: its points differ from the
\* points computed before the orient test
C4_Witness ==
    /\ morient = "y"
    /\ \E j \in DOMAIN axlines :
          /\ axlines[j].xy1 # PointsBeforeSwap(mark, split[axlines[j].group])[1]
          /\ axlines[j].xy1[2] = Scalar(0)
          /\ axlines[j].xy2[2] = Scalar(1)

C6_AxhlinePoints ==
    (mark = "Axhline" /\ pstatus = "returned") =>
        \A i \in DOMAIN split :
            LET y0 == split[i].y
                cs == CallsOf(i)
            IN  /\ cs # <<>>
                /\ \A k \in DOMAIN cs :
                      IF morient = "x"
                      THEN cs[k].xy1 = <<Scalar(0), y0>> /\ cs[k].xy2 = <<Scalar(1), y0>>
                      ELSE cs[k].xy1 = <<y0, Scalar(0)>> /\ cs[k].xy2 = <<y0, Scalar(1)>>

\* an Axhline rendered with orient "x" at y0 = 1
C6_Witness ==
    /\ mark = "Axhline"
    /\ morient = "x"
    /\ pstatus = "returned"
    /\ \E j \in DOMAIN axlines :
          /\ split[axlines[j].group].y = Scalar(1)
          /\ axlines[j].xy1 = <<Scalar(0), Scalar(1)>>
          /\ axlines[j].xy2 = <<Scalar(1), Scalar(1)>>

\* C7: there is a vertical-line class next to Axline and Axhline, and with
\* value x0 it draws through (x0, 0) and (x0, 1).
C7_VerticalVariant ==
    /\ "Axvline" \in MarkClasses
    /\ mark = "Axvline" =>
          \A j \in DOMAIN axlines :
              /\ axlines[j].xy1 = <<split[axlines[j].group].x, Scalar(0)>>
              /\ axlines[j].xy2 = <<split[axlines[j].group].x, Scalar(1)>>

-----------------------------------------------------------------------------
(* Properties of the stats                                                 *)

\* C1 (SpecRolling): a call of Rolling ends in an error, never in a return.
C1_RollingAlwaysFails ==
    (inst.cls = "Rolling" /\ outcome # "idle") => outcome = "raised"

\* C2 (SpecAggCustom): after every call the instance's func and
\* group_by_orient are what the constructor set, and the call returned what
\* a freshly constructed instance returns for the same input.
C2_NoStateBetweenCalls ==
    /\ inst.func = constructed.func
    /\ inst.group_by_orient = constructed.group_by_orient
    /\ outcome # "idle" =>
          LET fresh == AggCustomDunderCall(constructed, data, groupby, sorient)
          IN  outcome = fresh.status /\ result = fresh.result

\* the key of a result row, and the rows of the table in its group
KeyOf(r) == [v \in Range(Grouper(data, groupby)) |-> r[v]]

\* the keys of the groups observed in the table
ObservedKeys ==
    {k \in Range(GroupKeys(data, Grouper(data, groupby), 1)) : Members(data, k) # <<>>}

Defined(rows, c) == NotNa(Column(rows, c))

\* cell v is the arithmetic mean of the whole numbers in cells
IsMeanOf(v, cells) ==
    /\ cells # <<>>
    /\ v[2] > 0
    /\ v[1] * Len(cells) = SumNum(cells) * v[2]

\* cell v is the least of the whole numbers in cells
IsMinOf(v, cells) ==
    /\ v \in Range(cells)
    /\ \A c \in Range(cells) : v[1] <= c[1]

\* C9 (SpecAgg): Agg with "mean" returns one row per grouping key whose
\* group has a defined mean of the dependent-axis column, that column being
\* the arithmetic mean of the group's values; no other column is reduced.
C9_AggMean ==
    (inst.func = "mean" /\ outcome = "returned") =>
        LET var == Other(sorient)
            rows == result.rows
            gset == Range(Grouper(data, groupby))
        IN  /\ \A i \in DOMAIN rows :
                  /\ DOMAIN rows[i] = gset \cup {var}
                  /\ IsMeanOf(rows[i][var], Defined(Members(data, KeyOf(rows[i])), var))
            /\ \A i, j \in DOMAIN rows : KeyOf(rows[i]) = KeyOf(rows[j]) => i = j
            /\ {KeyOf(rows[i]) : i \in DOMAIN rows}
                   = {k \in ObservedKeys : Defined(Members(data, k), var) # <<>>}

\* two rows of one group with y = 1 and y = 2 reduce to one row with y = 3/2
C9_Witness ==
    /\ inst.func = "mean"
    /\ outcome = "returned"
    /\ sorient = "x"
    /\ Len(data.rows) = 2
    /\ Len(result.rows) = 1
    /\ result.rows[1]["y"] = <<3, 2>>

\* C10 as claimed (SpecAggCustom): with {"intercept": min, "slope": "mean"}
\* and group_by_orient False there is one row for every group.
C10_OneRowPerGroup ==
    (/\ constructed.func = FuncDict(LineDict)
     /\ ~constructed.group_by_orient
     /\ outcome = "returned") =>
        \A k \in ObservedKeys :
            Cardinality({i \in DOMAIN result.rows : KeyOf(result.rows[i]) = k}) = 1

\* C10 amended: with {"intercept": min, "slope": "mean"} and
\* group_by_orient False there is one row for every group whose minimum of
\* intercept and mean of slope are both defined, and none for the others;
\* intercept is the group's minimum, slope the group's mean, and the other
\* orient gives the same outcome.  With group_by_orient True the orient
\* column is not among the aggregated columns.
C10_AggCustom ==
    /\ (/\ constructed.func = FuncDict(LineDict)
        /\ ~constructed.group_by_orient
        /\ outcome = "returned") =>
          LET rows == result.rows
              other == AggCustomDunderCall(constructed, data, groupby, Other(sorient))
          IN  /\ \A i \in DOMAIN rows :
                    LET m == Members(data, KeyOf(rows[i]))
                    IN  /\ IsMinOf(rows[i]["intercept"], Defined(m, "intercept"))
                        /\ IsMeanOf(rows[i]["slope"], Defined(m, "slope"))
              /\ \A i, j \in DOMAIN rows : KeyOf(rows[i]) = KeyOf(rows[j]) => i = j
              /\ {KeyOf(rows[i]) : i \in DOMAIN rows}
                     = {k \in ObservedKeys :
                           /\ Defined(Members(data, k), "intercept") # <<>>
                           /\ Defined(Members(data, k), "slope") # <<>>}
              /\ other.status = outcome
              /\ other.result = result
    /\ (constructed.group_by_orient /\ outcome = "returned") =>
          \A i \in DOMAIN result.rows :
              LET aggregated == DOMAIN result.rows[i] \ Range(Grouper(data, groupby))
              IN  /\ sorient \notin aggregated
                  /\ aggregated = FuncCols(inst.func) \ {sorient}
                  /\ aggregated \subseteq FuncCols(constructed.func)

\* two rows of one group reduce to intercept = min(2, 1) and slope = mean(1, 2)
C10_Witness ==
    /\ constructed.func = FuncDict(LineDict)
    /\ ~constructed.group_by_orient
    /\ outcome = "returned"
    /\ Len(data.rows) = 2
    /\ data.rows[1]["intercept"] = Num(2)
    /\ Len(result.rows) = 1
    /\ result.rows[1]["intercept"] = Num(1)
    /\ result.rows[1]["slope"] = <<3, 2>>

\* C8 (SpecEst): every row Est returns has a defined estimate and defined
\* bounds; a bound the estimator left undefined equals the estimate, so a
\* one-row group has varmin = var = varmax; groups whose estimate is
\* undefined have no row.
C8_EstNoUndefinedBound ==
    outcome = "returned" =>
        LET var == Other(sorient)
            rows == result.rows
        IN  /\ \A i \in DOMAIN rows :
                  LET m == Members(data, KeyOf(rows[i]))
                      est == Process(constructed, m, var)
                  IN  /\ ~IsNaN(rows[i][var])
                      /\ ~IsNaN(rows[i][MinCol(var)])
                      /\ ~IsNaN(rows[i][MaxCol(var)])
                      /\ IsNaN(est[MinCol(var)]) => rows[i][MinCol(var)] = rows[i][var]
                      /\ IsNaN(est[MaxCol(var)]) => rows[i][MaxCol(var)] = rows[i][var]
                      /\ Len(m) = 1 =>
                            /\ rows[i][MinCol(var)] = rows[i][var]
                            /\ rows[i][MaxCol(var)] = rows[i][var]
            /\ {KeyOf(rows[i]) : i \in DOMAIN rows}
                   = {k \in ObservedKeys : Defined(Members(data, k), var) # <<>>}

\* a one-row group next to a two-row table: its band has zero width
C8_Witness ==
    /\ inst.errorbar = "pi"
    /\ outcome = "returned"
    /\ sorient = "x"
    /\ \E i \in DOMAIN result.rows :
          /\ Len(Members(data, KeyOf(result.rows[i]))) = 1
          /\ result.rows[i]["ymin"] = result.rows[i]["y"]
          /\ result.rows[i]["ymax"] = result.rows[i]["y"]

====
